---------------------------- MODULE Spec2Model ----------------------------
(*************************************************************************)
(* A model of the pancakes stack walker: the TaggedWord arithmetic       *)
(* (src/tagged_word.rs), the register rule evaluator                     *)
(* (src/x86_64/registers.rs), the Options builder and the Walker with    *)
(* its walk_one / walk operations (src/lib.rs).                          *)
(*                                                                       *)
(* Machine words are scaled down from 64 bits to WordBits bits.  The     *)
(* gimli decoder is outside the repository: a frame descriptor is given  *)
(* by what the decoder yields for it (whether its CIE initialises a      *)
(* context, and its rows or a decode error, in decoder order).           *)
(*************************************************************************)
EXTENDS Integers, Sequences, FiniteSets, TLC

(*************************************************************************)
(* Bounds of the model.                                                  *)
(*************************************************************************)
WordBits == 4

MaxEntries == 3

MaxSteps == 3

\* The highest instruction pointer walk and walk_one are called with.
MaxIp == 15

\* The number of values of a usize of WordBits bits.
Modulus == 2 ^ WordBits

Word == 0 .. (Modulus - 1)

\* isize::MIN at this width.
ISizeMin == 0 - (Modulus \div 2)

(*************************************************************************)
(* TaggedWord (src/tagged_word.rs).                                      *)
(*************************************************************************)
Valid(w) == [valid |-> TRUE, word |-> w]

Invalid == [valid |-> FALSE, word |-> 0]

TaggedWords == {Invalid} \cup {Valid(w) : w \in Word}

is_valid(t) == t.valid

\* The result of an operation that may panic: a TaggedWord, or a panic.
Done(t) == [panic |-> FALSE, value |-> t]

PanicWord == [panic |-> TRUE, value |-> Invalid]

RECURSIVE BitOp(_, _, _, _)
\* The bitwise operation f on the low n bits of x and y.
BitOp(f, x, y, n) ==
    IF n = 0 THEN 0
    ELSE LET a == x % 2
             b == y % 2
             bit == CASE f = "and" -> (IF a = 1 /\ b = 1 THEN 1 ELSE 0)
                      [] f = "or"  -> (IF a = 1 \/ b = 1 THEN 1 ELSE 0)
                      [] f = "xor" -> (IF a # b THEN 1 ELSE 0)
         IN  bit + 2 * BitOp(f, x \div 2, y \div 2, n - 1)

BinOps == {"add", "bitand", "bitor", "bitxor", "div", "mul", "rem", "sub"}

\* The name of the assigning form of each operator.
AssignName(op) ==
    CASE op = "add"    -> "add_assign"
      [] op = "sub"    -> "sub_assign"
      [] op = "mul"    -> "mul_assign"
      [] op = "div"    -> "div_assign"
      [] op = "rem"    -> "rem_assign"
      [] op = "bitand" -> "bitand_assign"
      [] op = "bitor"  -> "bitor_assign"
      [] op = "bitxor" -> "bitxor_assign"

\* Does the machine operation of the operator panic on the words x, y?
\* wrapping_div and wrapping_rem panic on a zero divisor.
ImpPanics(op, x, y) == op \in {"div", "rem"} /\ y = 0

\* Machine operations of which the addition saturates instead of wrapping.
ImpSaturatingAdd(op, x, y) ==
    CASE op = "add"    -> (IF x + y >= Modulus THEN Modulus - 1 ELSE x + y)
      [] op = "sub"    -> (x - y + Modulus) % Modulus
      [] op = "mul"    -> (x * y) % Modulus
      [] op = "div"    -> x \div y
      [] op = "rem"    -> x % y
      [] op = "bitand" -> BitOp("and", x, y, WordBits)
      [] op = "bitor"  -> BitOp("or", x, y, WordBits)
      [] op = "bitxor" -> BitOp("xor", x, y, WordBits)

\* The machine operation of each operator: the $imp of its macro instance.
Imp(op, x, y) ==
    CASE op = "add"    -> (x + y) % Modulus
      [] op = "sub"    -> (x - y + Modulus) % Modulus
      [] op = "mul"    -> (x * y) % Modulus
      [] op = "div"    -> x \div y
      [] op = "rem"    -> x % y
      [] op = "bitand" -> BitOp("and", x, y, WordBits)
      [] op = "bitor"  -> BitOp("or", x, y, WordBits)
      [] op = "bitxor" -> BitOp("xor", x, y, WordBits)

\* impl_binop!: self.and_then(|x| rhs.map(|y| imp)).
Binop(op, self, rhs) ==
    IF self.valid
    THEN IF rhs.valid
         THEN IF ImpPanics(op, self.word, rhs.word)
              THEN PanicWord
              ELSE Done(Valid(Imp(op, self.word, rhs.word)))
         ELSE Done(Invalid)
    ELSE Done(Invalid)

\* A binop-assign whose subtraction takes its operands the other way
\* round.
BinopAssignSubSwapped(op, self, rhs) ==
    IF self.valid /\ rhs.valid
    THEN IF ImpPanics(op, self.word, rhs.word)
         THEN PanicWord
         ELSE IF op = "sub"
         THEN Done(Valid(Imp(op, rhs.word, self.word)))
         ELSE Done(Valid(Imp(op, self.word, rhs.word)))
    ELSE Done(Invalid)

\* A binop-assign whose fall-through arm leaves the left side as it was.
BinopAssignKeepsLhs(op, self, rhs) ==
    IF self.valid /\ rhs.valid
    THEN IF ImpPanics(op, self.word, rhs.word)
         THEN PanicWord
         ELSE Done(Valid(Imp(op, self.word, rhs.word)))
    ELSE Done(self)

\* impl_binop_assign!: the value of *self after `self op= rhs`.
BinopAssign(op, self, rhs) ==
    IF self.valid /\ rhs.valid
    THEN IF ImpPanics(op, self.word, rhs.word)
         THEN PanicWord
         ELSE Done(Valid(Imp(op, self.word, rhs.word)))
    ELSE Done(Invalid)

\* TaggedWord::default().
default == Invalid

\* TaggedWord::map: f is called on the word of a valid self alone.
map(self, f) == IF self.valid THEN Valid(f[self.word]) ELSE Invalid

\* An and_then that makes a valid word of whatever f returns.
and_then_wraps(self, f) == IF self.valid THEN Valid(f[self.word].word) ELSE Invalid

\* TaggedWord::and_then.
and_then(self, f) == IF self.valid THEN f[self.word] ELSE Invalid

\* TaggedWord::unwrap_or.
unwrap_or(self, d) == IF self.valid THEN self.word ELSE d

\* The calls of f that map and and_then make.
CallsOfF(self) == IF self.valid THEN <<self.word>> ELSE <<>>

\* A Result<usize, E>.
ResultOk(w) == [kind |-> "Ok", word |-> w, err |-> ""]

ResultErr(e) == [kind |-> "Err", word |-> 0, err |-> e]

\* From<Result<usize, E>> for TaggedWord.
from_result(r) == IF r.kind = "Ok" THEN Valid(r.word) ELSE Invalid

\* A conversion that makes Ok(0) of an invalid word.
into_result_zero(w) == IF w.valid THEN ResultOk(w.word) ELSE ResultOk(0)

\* From<TaggedWord> for error::Result<usize>.
into_result(w) ==
    IF w.valid THEN ResultOk(w.word) ELSE ResultErr("InvalidTaggedWord")

(*************************************************************************)
(* Results and errors (src/error.rs).                                    *)
(*************************************************************************)
NoRegs == [bp |-> Invalid, sp |-> Invalid, ip |-> Invalid]

\* Ok(registers).
Ok(r) == [kind |-> "Ok", regs |-> r, err |-> "", arg |-> 0]

\* Err(error); arg is the address or the register number the error carries.
Err(e, a) == [kind |-> "Err", regs |-> NoRegs, err |-> e, arg |-> a]

\* The call did not return: it panicked.
Panic == [kind |-> "Panic", regs |-> NoRegs, err |-> "", arg |-> 0]

\* No Result: the call is not one of walk_one.
NoResult == [kind |-> "None", regs |-> NoRegs, err |-> "", arg |-> 0]

(*************************************************************************)
(* MemoryReader (src/lib.rs).  A reader is a function from addresses to  *)
(* the result of read: [ok |-> TRUE, word |-> w] or a failed read.       *)
(*************************************************************************)
ReadOk(w) == [ok |-> TRUE, word |-> w]

ReadFailed == [ok |-> FALSE, word |-> 0]

\* The value of an arithmetic expression that panicked (overflow checks).
Overflowed == 0 - 1

\* `-offset as usize` for a negative offset: the negation overflows on
\* isize::MIN, which panics with overflow checks and wraps without.
NegAsUsize(offset, oc) ==
    IF offset = ISizeMin
    THEN (IF oc THEN Overflowed ELSE Modulus \div 2)
    ELSE 0 - offset

\* `a + b` on usize: panics on overflow with overflow checks, wraps without.
UsizeAdd(a, b, oc) ==
    IF b = Overflowed THEN Overflowed
    ELSE IF a + b >= Modulus
         THEN (IF oc THEN Overflowed ELSE (a + b) % Modulus)
         ELSE a + b

\* The address computed from (addr, offset) by read_offset, and by the
\* ValOffset rule, which repeats the same expression.
OffsetAddr(addr, offset, oc) ==
    IF offset < 0
    THEN UsizeAdd(addr, NegAsUsize(offset, oc), oc)
    ELSE UsizeAdd(addr, offset, oc)

\* self.read(addr) on the address read_offset computed: kind is "Ok"
\* (word read), "Err", or "Panic" when computing the address panicked.
ReadAt(rdr, a) ==
    IF a = Overflowed THEN [kind |-> "Panic", word |-> 0]
    ELSE IF rdr[a].ok THEN [kind |-> "Ok", word |-> rdr[a].word]
    ELSE [kind |-> "Err", word |-> 0]

\* MemoryReader::read_offset.
read_offset(rdr, addr, offset, oc) == ReadAt(rdr, OffsetAddr(addr, offset, oc))

\* ThisProcessMemory::read on a process whose mapped memory is mem: what
\* the call can give.  `addr.as_ref()` is None for the null pointer and
\* the unwrap panics; any other address is dereferenced, which where it
\* is not mapped is undefined behaviour: a fault, or whatever word.
ThisProcessMemoryRead(mem, addr) ==
    IF addr = 0 THEN {[kind |-> "Panic", word |-> 0]}
    ELSE IF mem[addr].ok THEN {[kind |-> "Ok", word |-> mem[addr].word]}
    ELSE {[kind |-> "Fault", word |-> 0]}
             \cup {[kind |-> "Ok", word |-> w] : w \in Word}

(*************************************************************************)
(* FrameRegisters (src/x86_64/registers.rs).                             *)
(*************************************************************************)
BP == 6

SP == 7

IP == 16

\* A rule of a row for one register; n is the offset or register number.
Rule(r, n) == [rule |-> r, n |-> n]

\* A CFA rule.
CfaRegisterAndOffset(r, o) ==
    [rule |-> "RegisterAndOffset", register |-> r, offset |-> o]

CfaExpression == [rule |-> "Expression", register |-> 0, offset |-> 0]

\* get_register: Ok(word) for a tracked register, Err(UnknownRegister).
get_register(self, register_num) ==
    CASE register_num = BP -> [ok |-> TRUE, value |-> self.bp]
      [] register_num = SP -> [ok |-> TRUE, value |-> self.sp]
      [] register_num = IP -> [ok |-> TRUE, value |-> self.ip]
      [] OTHER -> [ok |-> FALSE, value |-> Invalid]

\* From<Result<usize, E>> for TaggedWord, on the result of a read.
ReadInto(r) ==
    IF r.kind = "Panic" THEN PanicWord
    ELSE IF r.kind = "Ok" THEN Done(Valid(r.word))
    ELSE Done(Invalid)

\* TaggedWord::valid on an address, unless computing it panicked.
ValidAddr(a) == IF a = Overflowed THEN PanicWord ELSE Done(Valid(a))

\* An evaluator whose Register arm unwraps the answer of get_register.
eval_register_rule_unwraps(self, rule, cfa, rdr, oc) ==
    CASE rule.rule \in {"Undefined", "Architectural"} -> Done(Invalid)
      [] rule.rule = "SameValue" -> Done(self.bp)
      [] rule.rule = "Offset" -> ReadInto(read_offset(rdr, cfa, rule.n, oc))
      [] rule.rule = "ValOffset" -> ValidAddr(OffsetAddr(cfa, rule.n, oc))
      [] rule.rule = "Register" ->
            (IF get_register(self, rule.n).ok
             THEN Done(get_register(self, rule.n).value)
             ELSE PanicWord)
      [] rule.rule \in {"Expression", "ValExpression"} -> PanicWord

\* eval_register_rule: the new value of a register, or a panic.
eval_register_rule(self, rule, cfa, rdr, oc) ==
    CASE rule.rule \in {"Undefined", "Architectural"} -> Done(Invalid)
      [] rule.rule = "SameValue" -> Done(self.bp)
      [] rule.rule = "Offset" -> ReadInto(read_offset(rdr, cfa, rule.n, oc))
      [] rule.rule = "ValOffset" -> ValidAddr(OffsetAddr(cfa, rule.n, oc))
      [] rule.rule = "Register" -> Done(get_register(self, rule.n).value)
      [] rule.rule \in {"Expression", "ValExpression"} -> PanicWord

\* The CFA read through the reader: [kind |-> "Ok", word |-> cfa], or the
\* Result / panic that from_unwind_table_row ends with.
CfaOfRead(r) ==
    CASE r.kind = "Panic" -> [kind |-> "Fail", res |-> Panic, word |-> 0]
      [] r.kind = "Err"   -> [kind |-> "Fail", res |-> Err("Io", 0), word |-> 0]
      [] r.kind = "Ok"    -> [kind |-> "Ok", res |-> Panic, word |-> r.word]

\* A CFA evaluation that tests the validity of the word before the answer
\* of get_register.
CfaOfRegisterValidityFirst(got, register, offset, rdr, oc) ==
    IF ~got.value.valid
    THEN [kind |-> "Fail", word |-> 0, res |-> Err("InvalidTaggedWord", 0)]
    ELSE IF ~got.ok
    THEN [kind |-> "Fail", word |-> 0, res |-> Err("UnknownRegister", register)]
    ELSE CfaOfRead(read_offset(rdr, got.value.word, offset, oc))

\* The CFA of a RegisterAndOffset rule, given get_register's answer.
CfaOfRegister(got, register, offset, rdr, oc) ==
    IF ~got.ok
    THEN [kind |-> "Fail", word |-> 0, res |-> Err("UnknownRegister", register)]
    ELSE IF ~got.value.valid
    THEN [kind |-> "Fail", word |-> 0, res |-> Err("InvalidTaggedWord", 0)]
    ELSE CfaOfRead(read_offset(rdr, got.value.word, offset, oc))

\* `let cfa = match *row.cfa() { .. }`.
RowCfa(row, old_registers, rdr, oc) ==
    IF row.cfa.rule = "Expression" THEN [kind |-> "Fail", res |-> Panic, word |-> 0]
    ELSE CfaOfRegister(get_register(old_registers, row.cfa.register),
                       row.cfa.register, row.cfa.offset, rdr, oc)

\* Ok(FrameRegisters { bp, sp, ip }), unless evaluating a rule panicked.
AssembleRegisters(bp, sp, ip) ==
    IF bp.panic \/ sp.panic \/ ip.panic THEN Panic
    ELSE Ok([bp |-> bp.value, sp |-> sp.value, ip |-> ip.value])

\* from_unwind_table_row once the CFA rule is evaluated.
RegistersFromCfa(cfa, row, old_registers, rdr, oc) ==
    IF cfa.kind = "Fail" THEN cfa.res
    ELSE AssembleRegisters(
             eval_register_rule(old_registers, row.bp, cfa.word, rdr, oc),
             eval_register_rule(old_registers, row.sp, cfa.word, rdr, oc),
             eval_register_rule(old_registers, row.ip, cfa.word, rdr, oc))

\* Registers::from_unwind_table_row.
from_unwind_table_row(row, old_registers, rdr, oc) ==
    RegistersFromCfa(RowCfa(row, old_registers, rdr, oc), row, old_registers,
                     rdr, oc)

(*************************************************************************)
(* The calls a row evaluation makes: the addresses handed to             *)
(* MemoryReader::read, in order, and the registers whose rule            *)
(* eval_register_rule was called for.                                    *)
(*************************************************************************)
\* The call self.read(addr) of read_offset: none when computing the
\* address panicked.
ReadAddrs(a) == IF a = Overflowed THEN <<>> ELSE <<a>>

\* The reads of MemoryReader::read_offset.
ReadOffsetReads(addr, offset, oc) == ReadAddrs(OffsetAddr(addr, offset, oc))

\* The reads of eval_register_rule: the Offset arm alone calls the reader.
RuleReads(rule, cfa, oc) ==
    IF rule.rule = "Offset" THEN ReadOffsetReads(cfa, rule.n, oc) ELSE <<>>

\* The reads of the RegisterAndOffset arm, given get_register's answer.
CfaRegisterReads(got, offset, oc) ==
    IF got.ok /\ got.value.valid
    THEN ReadOffsetReads(got.value.word, offset, oc)
    ELSE <<>>

\* The reads of `let cfa = match *row.cfa() { .. }`.
CfaReads(row, old_registers, oc) ==
    IF row.cfa.rule = "Expression" THEN <<>>
    ELSE CfaRegisterReads(get_register(old_registers, row.cfa.register),
                          row.cfa.offset, oc)

\* The registers whose rule is evaluated, in order: none when the CFA
\* failed, and none after a rule that panicked.
RowEvaluated(cfa, bp, sp) ==
    IF cfa.kind = "Fail" THEN <<>>
    ELSE IF bp.panic THEN <<"bp">>
    ELSE IF sp.panic THEN <<"bp", "sp">>
    ELSE <<"bp", "sp", "ip">>

\* The reads of the rule of the i-th register evaluated.
EvaluatedReads(evaluated, i, row, cfa, oc) ==
    IF i > Len(evaluated) THEN <<>>
    ELSE RuleReads(row[evaluated[i]], cfa.word, oc)

\* The registers from_unwind_table_row evaluates the rule of.
from_unwind_table_row_evaluated(row, old_registers, rdr, oc) ==
    RowEvaluated(
        RowCfa(row, old_registers, rdr, oc),
        eval_register_rule(old_registers, row.bp,
                           RowCfa(row, old_registers, rdr, oc).word, rdr, oc),
        eval_register_rule(old_registers, row.sp,
                           RowCfa(row, old_registers, rdr, oc).word, rdr, oc))

\* The reads of from_unwind_table_row once the CFA is known.
RowReads(evaluated, cfa, row, old_registers, oc) ==
    CfaReads(row, old_registers, oc)
        \o EvaluatedReads(evaluated, 1, row, cfa, oc)
        \o EvaluatedReads(evaluated, 2, row, cfa, oc)
        \o EvaluatedReads(evaluated, 3, row, cfa, oc)

\* The reads of from_unwind_table_row.
from_unwind_table_row_reads(row, old_registers, rdr, oc) ==
    RowReads(from_unwind_table_row_evaluated(row, old_registers, rdr, oc),
             RowCfa(row, old_registers, rdr, oc), row, old_registers, oc)

(*************************************************************************)
(* UnwindEntry and the entry table (src/lib.rs).                         *)
(*************************************************************************)
\* Pointer arithmetic on an address: `ptr.offset(n)`.
PtrOffset(addr, n) == (addr + n) % Modulus

\* The entry add_entries_from_eh_frame makes of a frame descriptor:
\* range [initial_address + bias, initial_address + len + bias).
UnwindEntry(bias, fde) ==
    [range |-> [start |-> PtrOffset(fde.initial_address, bias),
                end   |-> PtrOffset(fde.initial_address, fde.len + bias)],
     bias  |-> bias,
     fde   |-> fde]

\* Ord for UnwindEntry compares range.start alone.
EntryLessOrEqual(a, b) == a.range.start <= b.range.start

RECURSIVE InsertSorted(_, _)
\* e put into the sorted s after every entry that is not greater.
InsertSorted(s, e) ==
    IF s = <<>> THEN <<e>>
    ELSE IF EntryLessOrEqual(s[Len(s)], e) THEN Append(s, e)
    ELSE Append(InsertSorted(SubSeq(s, 1, Len(s) - 1), e), s[Len(s)])

\* A build that leaves the entries in the order of their insertion.
SortEntriesKeepsOrder(s) == s

RECURSIVE SortEntries(_)
\* Vec::sort: a stable sort by Ord.
SortEntries(s) ==
    IF s = <<>> THEN <<>>
    ELSE InsertSorted(SortEntries(SubSeq(s, 1, Len(s) - 1)), s[Len(s)])

\* Does ip_avma.0.offset(-e.bias.0), an argument of the eprintln! at the
\* head of the comparator, leave the address space?  The negation wraps
\* (in a build without overflow checks) on the least isize.
ProbeOverflows(e, ip) ==
    ip + (IF e.bias = ISizeMin THEN ISizeMin ELSE 0 - e.bias) \notin Word

\* The comparator walk_one hands to binary_search_by, in a build with
\* overflow checks (oc) or without, and with the preconditions of unsafe
\* library functions checked (ub_checks, which follows debug assertions)
\* or not.  -e.bias.0 panics under overflow checks on the least isize;
\* where the offset then overflows the behaviour is undefined, and the
\* library checks abort the process.
CompareEntry(e, ip, oc, ub_checks) ==
    IF oc /\ e.bias = ISizeMin THEN "Panic"
    ELSE IF ub_checks /\ ProbeOverflows(e, ip) THEN "Abort"
    ELSE IF ip < e.range.start THEN "Greater"
    ELSE IF ip > e.range.end THEN "Less"
    ELSE "Equal"

RECURSIVE SearchLoop(_, _, _, _, _, _)
\* The loop of slice::binary_search_by: halve size, keeping base at the
\* last probed element that did not compare Greater; -1 when the
\* comparator panicked or aborted.
SearchLoop(s, ip, base, size, oc, ub_checks) ==
    IF size > 1
    THEN IF CompareEntry(s[base + size \div 2 + 1], ip, oc, ub_checks)
                \in {"Panic", "Abort"}
         THEN 0 - 1
         ELSE SearchLoop(s, ip,
                         IF CompareEntry(s[base + size \div 2 + 1], ip, oc,
                                         ub_checks) = "Greater"
                         THEN base
                         ELSE base + size \div 2,
                         size - size \div 2, oc, ub_checks)
    ELSE base

\* The last comparison of binary_search_by, on the element at base.
FoundAt(s, ip, base, oc, ub_checks) ==
    IF base = 0 - 1 THEN 0 - 1
    ELSE IF CompareEntry(s[base + 1], ip, oc, ub_checks)
                \in {"Panic", "Abort"}
    THEN 0 - 1
    ELSE IF CompareEntry(s[base + 1], ip, oc, ub_checks) = "Equal"
    THEN base + 1
    ELSE 0

\* slice::binary_search_by with the comparator of walk_one: the index
\* (from 1) of the entry found, 0 for Err(_), -1 when the comparator
\* panicked or the process was aborted in it.
binary_search_by(s, ip, oc, ub_checks) ==
    IF Len(s) = 0 THEN 0
    ELSE FoundAt(s, ip, SearchLoop(s, ip, 0, Len(s), oc, ub_checks), oc,
                 ub_checks)

(*************************************************************************)
(* The decode context (gimli's UninitializedUnwindContext, held in       *)
(* Walker.ctx as an Option).                                             *)
(*************************************************************************)
\* Some(TargetUninitializedUnwindContext::new()).
NewCtx == "Uninit"

\* c.initialize(cie) on the context c taken out of self.ctx: the
\* initialised context, or the error with the context the decoder hands
\* back.  That context has run the instructions of the CIE up to the
\* error and has not been reset: it is typed as uninitialised, and is not
\* the context of new() or of reset().  The decoder is not part of the
\* sources; an initialize on a context handed back is taken to proceed as
\* on any other, which the decoder need not do.
CtxInitialize(c, cie_ok) ==
    IF cie_ok THEN [ok |-> TRUE, ctx |-> "Init"]
    ELSE [ok |-> FALSE, ctx |-> "HandedBack"]

\* ctx.reset() on an initialised context: a context as new() makes it.
CtxReset(c) == "Uninit"

\* A row of a frame descriptor as the decoder yields it.
Row(start, end, cfa, bp, sp, ip) ==
    [decoded |-> TRUE, start |-> start, end |-> end, cfa |-> cfa,
     bp |-> bp, sp |-> sp, ip |-> ip]

\* next_row fails here with a decoder error.
RowDecodeError ==
    [decoded |-> FALSE, start |-> 0, end |-> 0, cfa |-> CfaExpression,
     bp |-> Rule("Undefined", 0), sp |-> Rule("Undefined", 0),
     ip |-> Rule("Undefined", 0)]

\* Does start.0.offset(entry.bias.0) or end.0.offset(entry.bias.0) leave
\* the address space?
RowOffsetOverflows(row, bias) ==
    row.start + bias \notin Word \/ row.end + bias \notin Word

\* A row test that takes the end address of the row as part of it.
RowContainsEnd(row, bias, ip, ub_checks) ==
    IF ub_checks /\ RowOffsetOverflows(row, bias) THEN "abort"
    ELSE IF PtrOffset(row.start, bias) <= ip /\ ip <= PtrOffset(row.end, bias)
    THEN "contains"
    ELSE "not contained"

\* Does the row, relocated by the entry's bias, contain ip?  Where an
\* offset overflows the behaviour is undefined: it wraps, or with the
\* library checks (ub_checks) the process is aborted.
RowContains(row, bias, ip, ub_checks) ==
    IF ub_checks /\ RowOffsetOverflows(row, bias) THEN "abort"
    ELSE IF PtrOffset(row.start, bias) <= ip /\ ip < PtrOffset(row.end, bias)
    THEN "contains"
    ELSE "not contained"

RECURSIVE ScanRows(_, _, _, _, _, _, _)
\* The row loop of walk_one from row i on: Ok(regs) or Err or Panic of the
\* first row containing ip, the decoder error met before it, "None" when
\* the rows are exhausted, or Panic when the process was aborted in the
\* test of a row.
ScanRows(entry, i, ip, start_regs, rdr, oc, ub_checks) ==
    IF i > Len(entry.fde.rows) THEN [kind |-> "None", res |-> Panic]
    ELSE IF ~entry.fde.rows[i].decoded
    THEN [kind |-> "Some", res |-> Err("Gimli", 0)]
    ELSE IF RowContains(entry.fde.rows[i], entry.bias, ip, ub_checks)
                = "abort"
    THEN [kind |-> "Some", res |-> Panic]
    ELSE IF RowContains(entry.fde.rows[i], entry.bias, ip, ub_checks)
                = "contains"
    THEN [kind |-> "Some",
          res |-> from_unwind_table_row(entry.fde.rows[i], start_regs, rdr,
                                        oc)]
    ELSE ScanRows(entry, i + 1, ip, start_regs, rdr, oc, ub_checks)

\* A walk_one whose error arm forgets to store the context back.
StoredCtxDropsOnErr(c, res) == IF res.kind = "Err" THEN "None" ELSE c

\* The context walk_one stores into self.ctx on an exit that has taken it:
\* every arm of the final match stores Some(ctx).
StoredCtx(c, res) == c

\* An early exit that has taken the context and does not store it back.
UntakenCtxIsTaken(c) == "None"

\* The context left in self.ctx by an exit before the context is taken.
UntakenCtx(c) == c

\* The final match of walk_one on what the row loop gave: the context,
\* reset, is stored back; a panic in the loop unwinds past it.
WalkOneResult(registers, ip, c, idx) ==
    IF registers.kind = "None"
    THEN [out |-> Err("NoUnwindInfoForAddress", ip),
          ctx |-> StoredCtx(CtxReset(c), Err("NoUnwindInfoForAddress", ip)),
          idx |-> idx]
    ELSE IF registers.res.kind = "Panic"
    THEN [out |-> Panic, ctx |-> "None", idx |-> idx]
    ELSE [out |-> registers.res, ctx |-> StoredCtx(CtxReset(c), registers.res),
          idx |-> idx]

\* walk_one once the context is taken and initialize has answered: on
\* its error the context handed back is stored as it is, without a reset.
WalkOneInitialized(init, entry, ip, start_regs, rdr, oc, idx, ub_checks) ==
    IF ~init.ok
    THEN [out |-> Err("Gimli", 0), ctx |-> StoredCtx(init.ctx, Err("Gimli", 0)),
          idx |-> idx]
    ELSE WalkOneResult(ScanRows(entry, 1, ip, start_regs, rdr, oc,
                                ub_checks), ip,
                       init.ctx, idx)

\* walk_one once the lookup has answered idx (0: not found; -1: the
\* comparator panicked or aborted, the call does not return, and self.ctx
\* has not been taken).
WalkOneFound(idx, s, rdr, c, ip, start_regs, oc, ub_checks) ==
    IF idx = 0 - 1
    THEN [out |-> Panic, ctx |-> UntakenCtx(c), idx |-> 0]
    ELSE IF idx = 0
    THEN [out |-> Err("NoUnwindInfoForAddress", ip), ctx |-> UntakenCtx(c),
          idx |-> 0]
    ELSE IF c = "None"
    THEN [out |-> Panic, ctx |-> "None", idx |-> idx]
    ELSE WalkOneInitialized(CtxInitialize(c, s[idx].fde.cie_ok), s[idx], ip,
                            start_regs, rdr, oc, idx, ub_checks)

\* Walker::walk_one on a Walker with the table s, the reader rdr and
\* self.ctx = c, in a build with overflow checks (oc) and library checks
\* (ub_checks) or without: the Result (or Panic, when the call does not
\* return), the context left in self.ctx and the index the lookup found
\* (0: none, or lookup not reached).
walk_one(s, rdr, c, start_regs, oc, ub_checks) ==
    IF ~start_regs.ip.valid
    THEN [out |-> Err("InvalidTaggedWord", 0), ctx |-> UntakenCtx(c), idx |-> 0]
    ELSE WalkOneFound(binary_search_by(s, start_regs.ip.word, oc, ub_checks),
                      s, rdr, c, start_regs.ip.word, start_regs, oc,
                      ub_checks)

\* The library checks to tell apart on a walk_one of start_regs on the
\* table s: where no offset overflows, in the comparator on some entry or
\* in relocating some row, every build does the same and the build
\* without the checks stands for all of them.  (A row address is in the
\* address space, and a bias of 0 leaves it and ip there.)
WalkChecks(s, start_regs) ==
    IF /\ start_regs.ip.valid
       /\ \E i \in 1 .. Len(s) :
             /\ s[i].bias # 0
             /\ \/ ProbeOverflows(s[i], start_regs.ip.word)
                \/ \E k \in 1 .. Len(s[i].fde.rows) :
                      RowOffsetOverflows(s[i].fde.rows[k], s[i].bias)
    THEN BOOLEAN
    ELSE {FALSE}

(*************************************************************************)
(* The control signal (src/control.rs).                                  *)
(*************************************************************************)
\* A value a callback returns: of type (), Result or StackWalkControl;
\* id tells the values of one walk apart.
CallbackValue(ty, val, id) == [ty |-> ty, val |-> val, id |-> id]

NoValue == CallbackValue("None", "", 0)

\* The values of each callback return type T.
ValuesOf(ty) ==
    CASE ty = "Unit"    -> {"()"}
      [] ty = "Result"  -> {"Ok", "Err"}
      [] ty = "Control" -> {"Continue", "Break"}
      [] ty = "Other"   -> {"value"}

\* "Other": a type of the caller whose impl keeps the default method.
CallbackTypes == {"Unit", "Result", "Control", "Other"}

\* A conversion that is the default method for every type.
as_stack_walk_control_default(v) == "Continue"

\* AsStackWalkControl::as_stack_walk_control.
as_stack_walk_control(v) ==
    CASE v.ty = "Control" -> v.val
      [] v.ty = "Unit"    -> "Continue"
      [] v.ty = "Result"  -> (IF v.val = "Ok" THEN "Continue" ELSE "Break")
      [] v.ty = "Other"   -> "Continue"

(*************************************************************************)
(* The inputs of the model: frame descriptors, a stack, registers.       *)
(*************************************************************************)
\* The row of a function body: CFA from sp, caller's ip saved below it.
StdRow(start, end) ==
    Row(start, end, CfaRegisterAndOffset(SP, 2),
        Rule("SameValue", 0), Rule("ValOffset", 2), Rule("Offset", 0 - 1))

Fde(initial_address, len, cie_ok, rows) ==
    [initial_address |-> initial_address, len |-> len, cie_ok |-> cie_ok,
     rows |-> rows]

\* Function C, [1, 3): two rows.
FdeC ==
    Fde(1, 2, TRUE,
        <<StdRow(1, 2),
          Row(2, 3, CfaRegisterAndOffset(BP, 0),
              Rule("Offset", 0), Rule("Register", BP), Rule("Offset", 1))>>)

\* Function B, [3, 5), next to C: its second row fails to decode.
FdeB == Fde(3, 2, TRUE, <<StdRow(3, 4), RowDecodeError>>)

\* A descriptor at [2, 5), loaded with bias 4, whose rows name an
\* untracked register and expression-encoded rules.
FdeX ==
    Fde(2, 3, TRUE,
        <<Row(2, 3, CfaRegisterAndOffset(0, 0),
              Rule("Undefined", 0), Rule("Undefined", 0), Rule("Undefined", 0)),
          Row(3, 4, CfaExpression,
              Rule("Undefined", 0), Rule("Undefined", 0), Rule("Undefined", 0)),
          Row(4, 5, CfaRegisterAndOffset(SP, 2),
              Rule("Register", 3), Rule("Architectural", 0),
              Rule("ValExpression", 0))>>)

\* A descriptor at [10, 12) whose CIE does not initialise a context.
FdeBadCie == Fde(10, 2, FALSE, <<StdRow(10, 12)>>)

\* The records of an .eh_frame section as the decoder yields them: a CIE,
\* a frame descriptor, or a record that fails to decode or to parse.
NoFde == Fde(0, 0, FALSE, <<>>)

CieRecord == [kind |-> "Cie", fde |-> NoFde]

FdeRecord(fde) == [kind |-> "Fde", fde |-> fde]

BadRecord == [kind |-> "Error", fde |-> NoFde]

\* The sections add_entries_from_eh_frame is called with, and their bias.
EhFrameInputs ==
    {[bias |-> 0, section |-> <<CieRecord, FdeRecord(FdeC), FdeRecord(FdeB)>>],
     [bias |-> 4, section |-> <<CieRecord, FdeRecord(FdeX)>>],
     [bias |-> 4, section |-> <<CieRecord, FdeRecord(FdeBadCie)>>],
     [bias |-> 0, section |-> <<FdeRecord(FdeC), BadRecord, FdeRecord(FdeB)>>]}

\* The entries a test may add.
EntryUniverse ==
    {UnwindEntry(0, FdeC), UnwindEntry(0, FdeB), UnwindEntry(4, FdeX),
     UnwindEntry(0, FdeBadCie)}

\* The entries a section gives at a bias.
SectionEntries(i) ==
    {UnwindEntry(i.bias, i.section[k].fde) :
        k \in {j \in 1 .. Len(i.section) : i.section[j].kind = "Fde"}}

\* Every entry a table may come to hold.
AllEntries == EntryUniverse \cup UNION {SectionEntries(i) : i \in EhFrameInputs}

\* No entry added.
NoneAdded == [e \in AllEntries |-> 0]

\* self.entries.push(e), recorded in the history a.
Recorded(a, e) == [a EXCEPT ![e] = @ + 1]

RECURSIVE RecordedAll(_, _)
\* The pushes of a batch, in order.
RecordedAll(a, batch) ==
    IF batch = <<>> THEN a
    ELSE RecordedAll(Recorded(a, Head(batch)), Tail(batch))

\* The batches add_entries is called with.
EntryBatches == {<<>>} \cup {<<a, b>> : a, b \in EntryUniverse}

\* The stack of the walked thread, C called by B called by A: readable
\* from 6 to 15, with the frame records of C at 8 and of B at 12.
StackMemory ==
    [a \in Word |->
        CASE a = 8  -> ReadOk(8)
          [] a = 9  -> ReadOk(3)
          [] a = 12 -> ReadOk(12)
          [] a = 13 -> ReadOk(13)
          [] a \in 6 .. 15 -> ReadOk(0)
          [] OTHER -> ReadFailed]

\* A reader whose every read fails: the value of `reader` while there is
\* no Walker.
NoReader == [a \in Word |-> ReadFailed]

Readers == {StackMemory}

Regs(bp, sp, ip) == [bp |-> bp, sp |-> sp, ip |-> ip]

\* The registers captured in C.
RegsC == Regs(Valid(8), Valid(6), Valid(1))

\* The registers walk and walk_one are called with.
StartRegisters ==
    {Regs(Valid(8), Valid(6), Valid(ip)) : ip \in Word \cap (0 .. MaxIp)}
    \cup {Regs(Valid(8), Valid(6), Invalid),
          Regs(Valid(8), Invalid, Valid(1)),
          Regs(Valid(8), Valid(0), Valid(1)),
          Regs(Valid(8), Valid(Modulus - 2), Valid(1))}

(*************************************************************************)
(* The inputs of the rule evaluator taken on its own.                    *)
(*************************************************************************)
\* Every isize.
Offsets == ISizeMin .. ((0 - ISizeMin) - 1)

\* Register numbers: the tracked ones and two that are not tracked.
RegisterNumbers == {0, 3, BP, SP, IP}

\* The rules eval_register_rule is applied to.
EvalRules ==
    {Rule(r, 0) : r \in {"Undefined", "Architectural", "SameValue",
                         "Expression", "ValExpression"}}
    \cup {Rule(r, n) : r \in {"Offset", "ValOffset"}, n \in Offsets}
    \cup {Rule("Register", r) : r \in RegisterNumbers}

\* The CFA rules of the rows from_unwind_table_row is applied to.
RowCfaRules ==
    {CfaRegisterAndOffset(r, o) : r \in {0, BP, SP, IP}, o \in {0 - 1, 0, 2}}
    \cup {CfaExpression}

\* The register rules of these rows.
RowRules ==
    {Rule("Undefined", 0), Rule("SameValue", 0), Rule("Offset", 0 - 1),
     Rule("Offset", 1), Rule("ValOffset", 0 - 2), Rule("ValOffset", 2),
     Rule("Register", SP), Rule("Register", 3), Rule("Expression", 0)}

RowInputs ==
    {Row(0, 1, c, b, s, i) : c \in RowCfaRules, b \in RowRules, s \in RowRules,
                             i \in RowRules}

\* The old registers of a row evaluation.
OldRegisters ==
    {Regs(b, s, i) : b \in {Invalid, Valid(3)},
                     s \in {Invalid, Valid(7), Valid(Modulus - 2)},
                     i \in {Invalid, Valid(9)}}

\* A memory readable from 4 to Modulus - 3, a different word at each
\* address, and unreadable elsewhere.
RowMemory ==
    [a \in Word |->
        IF a \in 4 .. (Modulus - 3) THEN ReadOk((a + 5) % Modulus)
        ELSE ReadFailed]

(*************************************************************************)
(* The state.                                                            *)
(*************************************************************************)
VARIABLES
    phase,            \* "options": an Options is held; "walker": a Walker
    entries,          \* Options.entries / Walker.opts.entries
    reader,           \* Walker.reader
    ctx,              \* Walker.ctx: "None", or the context it holds
    overflow_checks,  \* is the build one with overflow checks?
    pc,               \* "idle", or the position inside walk
    op,               \* the operation begun last: "none", "walk", "walk_one"
    start_registers,  \* the argument of the walk or walk_one begun last
    registers,        \* the local `registers` of walk
    result,           \* the local `result` of walk
    ret,              \* what the walk begun last returned
    calls,            \* the callback and walk_one calls of that operation
    added,            \* history: how often each entry was added since the
                      \* last clear
    ingest,           \* the add_entries_from_eh_frame call, when it is the
                      \* operation made last on the Options
    lhs, rhs,         \* the operands of a TaggedWord operation
    opname,           \* the operator applied to them, "none" before
    opout,            \* what it gave
    conv,             \* the arguments and the result of a conversion or a
                      \* combinator of TaggedWord applied to lhs
    rowop,            \* the function of the rule evaluator applied, "none" before
    old_registers,    \* the old registers it is applied to
    row_reader,       \* the reader it is applied to
    rowargs,          \* its other arguments
    rowout            \* what it gave, and the calls it made

walker_vars ==
    <<phase, entries, reader, ctx, pc, op, start_registers, registers,
      result, ret, calls, added, ingest>>

word_vars == <<lhs, rhs, opname, opout, conv>>

row_vars == <<rowop, old_registers, row_reader, rowargs, rowout>>

vars == <<walker_vars, overflow_checks, word_vars, row_vars>>

\* The events of `calls`.
CallbackEvent(regs, v) ==
    [ev |-> "callback", regs |-> regs, value |-> v, out |-> NoResult, idx |-> 0]

WalkOneEvent(regs, w) ==
    [ev |-> "walk_one", regs |-> regs, value |-> NoValue, out |-> w.out,
     idx |-> w.idx]

\* The return value of walk.
WalkOk(v) == [kind |-> "Ok", value |-> v, err |-> "", arg |-> 0]

WalkErr(e) == [kind |-> "Err", value |-> NoValue, err |-> e.err, arg |-> e.arg]

NoRet == [kind |-> "None", value |-> NoValue, err |-> "", arg |-> 0]

\* The indices of the events of kind k in the log c.
EventsOf(c, k) == {i \in 1 .. Len(c) : c[i].ev = k}

(*************************************************************************)
(* Options (src/lib.rs).                                                 *)
(*************************************************************************)
\* No walk or walk_one has been begun on the Walker, or there is none.
NoCall ==
    /\ pc = "idle"
    /\ op = "none"
    /\ start_registers = NoRegs
    /\ registers = NoRegs
    /\ result = NoValue
    /\ ret = NoRet
    /\ calls = <<>>

\* No add_entries_from_eh_frame call is the operation made last.
NoIngest ==
    [called |-> FALSE, bias |-> 0, section |-> <<>>, base |-> 0, kind |-> "None"]

\* Options::new().
OptionsNew ==
    /\ phase = "options"
    /\ entries = <<>>
    /\ reader = NoReader
    /\ ctx = "None"
    /\ added = NoneAdded
    /\ ingest = NoIngest
    /\ NoCall

\* The functions handed to map.
MapFunctions ==
    {[w \in Word |-> (w + 1) % Modulus], [w \in Word |-> 0],
     [w \in Word |-> (2 * w) % Modulus]}

\* The functions handed to and_then.
AndThenFunctions ==
    {[w \in Word |-> Valid((w + 1) % Modulus)], [w \in Word |-> Invalid],
     [w \in Word |-> IF w % 2 = 0 THEN Valid(w \div 2) ELSE Invalid]}

\* The Results converted to a TaggedWord.
Results ==
    {ResultOk(w) : w \in Word}
    \cup {ResultErr(e) : e \in {"Io", "Gimli", "InvalidTaggedWord"}}

NoFunction == [w \in Word |-> 0]

\* A conversion or combinator applied: its arguments besides lhs (a
\* Result, a function, a default) and what it gave (a TaggedWord, a
\* Result, a usize), with the calls of the function it made.
Conv(res, f, d, outw, outr, outn, fcalls) ==
    [res |-> res, f |-> f, d |-> d, outw |-> outw, outr |-> outr,
     outn |-> outn, fcalls |-> fcalls]

NoConv == Conv(ResultErr(""), NoFunction, 0, Invalid, ResultErr(""), 0, <<>>)

WordsIdle ==
    /\ lhs = Invalid
    /\ rhs = Invalid
    /\ opname = "none"
    /\ opout = Done(Invalid)
    /\ conv = NoConv

\* The arguments and the result of a function of the rule evaluator.
RowArgs(row, rule, cfa, addr, offset) ==
    [row |-> row, rule |-> rule, cfa |-> cfa, addr |-> addr, offset |-> offset]

NoRowArgs == RowArgs(RowDecodeError, Rule("Undefined", 0), 0, 0, 0)

RowOut(res, word, read, reads, evaluated) ==
    [res |-> res, word |-> word, read |-> read, reads |-> reads,
     evaluated |-> evaluated]

NoRead == [kind |-> "None", word |-> 0]

NoRowOut == RowOut(NoResult, Done(Invalid), NoRead, <<>>, <<>>)

RowsIdle ==
    /\ rowop = "none"
    /\ old_registers = NoRegs
    /\ row_reader = NoReader
    /\ rowargs = NoRowArgs
    /\ rowout = NoRowOut

Init ==
    /\ OptionsNew
    /\ overflow_checks \in BOOLEAN
    /\ WordsIdle
    /\ RowsIdle

\* Options::add_entry.
AddEntry(entry) ==
    /\ phase = "options"
    /\ pc = "idle"
    /\ Len(entries) < MaxEntries
    /\ entries' = Append(entries, entry)
    /\ added' = Recorded(added, entry)
    /\ ingest' = NoIngest
    /\ UNCHANGED <<phase, reader, ctx, pc, op, start_registers, registers,
                   result, ret, calls, overflow_checks, word_vars, row_vars>>

\* Options::add_entries: add_entry on each entry of the batch, in order.
AddEntries(batch) ==
    /\ phase = "options"
    /\ pc = "idle"
    /\ Len(entries) + Len(batch) <= MaxEntries
    /\ entries' = entries \o batch
    /\ added' = RecordedAll(added, batch)
    /\ ingest' = NoIngest
    /\ UNCHANGED <<phase, reader, ctx, pc, op, start_registers, registers,
                   result, ret, calls, overflow_checks, word_vars, row_vars>>

\* Does <*const u8>::offset(n) on the address addr leave the address
\* space?  Such an offset is undefined behaviour: it wraps around, or
\* aborts in a build whose library checks the preconditions of unsafe
\* functions.
OffsetOverflows(addr, n) == addr + n \notin Word

\* `fde.len() as isize + bias.0` in the integers: where it is no isize
\* the sum panics in a build with overflow checks and wraps in one
\* without.
LenPlusBias(len, bias) == ((len - ISizeMin) % Modulus) + ISizeMin + bias

\* The entry pushed for a frame descriptor, before those of the records
\* that follow it.
PushEntry(e, rest) == [kind |-> rest.kind, entries |-> <<e>> \o rest.entries]

RECURSIVE EhFrameEntries(_, _, _, _, _)
\* The loop of add_entries_from_eh_frame from record i on: the entries it
\* pushes, and how it ends: "Ok", "Err" (`?` returns at the first record
\* that fails to decode or to parse), "Panic" (the sum of the length and
\* the bias overflows) or "Abort" (an offset overflows under the library
\* checks); a CIE is skipped.
EhFrameEntries(bias, section, i, oc, ub_checks) ==
    IF i > Len(section) THEN [kind |-> "Ok", entries |-> <<>>]
    ELSE IF section[i].kind = "Error" THEN [kind |-> "Err", entries |-> <<>>]
    ELSE IF section[i].kind = "Cie"
    THEN EhFrameEntries(bias, section, i + 1, oc, ub_checks)
    ELSE IF ub_checks /\ OffsetOverflows(section[i].fde.initial_address, bias)
    THEN [kind |-> "Abort", entries |-> <<>>]
    ELSE IF /\ oc
            /\ LenPlusBias(section[i].fde.len, bias)
                   \notin ISizeMin .. ((0 - ISizeMin) - 1)
    THEN [kind |-> "Panic", entries |-> <<>>]
    ELSE IF /\ ub_checks
            /\ OffsetOverflows(
                   section[i].fde.initial_address,
                   ((LenPlusBias(section[i].fde.len, bias) - ISizeMin)
                        % Modulus) + ISizeMin)
    THEN [kind |-> "Abort", entries |-> <<>>]
    ELSE PushEntry(UnwindEntry(bias, section[i].fde),
                   EhFrameEntries(bias, section, i + 1, oc, ub_checks))

\* The call and what it gave: base is the length of the table before it.
Ingested(bias, section, base, r) ==
    [called |-> TRUE, bias |-> bias, section |-> section, base |-> base,
     kind |-> r.kind]

\* Options::add_entries_from_eh_frame.
AddEntriesFromEhFrame(bias, section, ub_checks) ==
    /\ phase = "options"
    /\ pc = "idle"
    /\ ub_checks \in BOOLEAN
    /\ Len(entries) + Len(section) <= MaxEntries + 1
    /\ \E r \in {EhFrameEntries(bias, section, 1, overflow_checks,
                                ub_checks)} :
          /\ entries' = entries \o r.entries
          /\ added' = RecordedAll(added, r.entries)
          /\ ingest' = Ingested(bias, section, Len(entries), r)
          /\ pc' = IF r.kind \in {"Abort", "Panic"} THEN "panicked"
                   ELSE "idle"
    /\ UNCHANGED <<phase, reader, ctx, op, start_registers, registers,
                   result, ret, calls, overflow_checks, word_vars, row_vars>>

\* The shared libraries findshlibs finds in the process: each with an
\* .eh_frame section, at a bias, or without one.
SharedLibraries ==
    {<<>>, <<[eh_frame |-> FALSE, bias |-> 0, section |-> <<>>]>>}
    \cup {<<[eh_frame |-> TRUE, bias |-> i.bias, section |-> i.section]>> :
             i \in EhFrameInputs}
    \cup {<<[eh_frame |-> TRUE, bias |-> i.bias, section |-> i.section],
            [eh_frame |-> FALSE, bias |-> 0, section |-> <<>>],
            [eh_frame |-> TRUE, bias |-> j.bias, section |-> j.section]>> :
             i, j \in EhFrameInputs}

RECURSIVE EachSharedLibrary(_, _, _, _)
\* TargetSharedLibrary::each of find_eh_frame_entries from library i on:
\* add_entries_from_eh_frame on the .eh_frame section of each library that
\* has one, its Err dropped with the entries it had pushed kept; the
\* entries pushed in all, and "Ok", or "Panic" or "Abort" where a call
\* did not return.
EachSharedLibrary(libs, i, oc, ub_checks) ==
    IF i > Len(libs) THEN [kind |-> "Ok", entries |-> <<>>]
    ELSE IF ~libs[i].eh_frame
    THEN EachSharedLibrary(libs, i + 1, oc, ub_checks)
    ELSE IF EhFrameEntries(libs[i].bias, libs[i].section, 1, oc,
                           ub_checks).kind \in {"Abort", "Panic"}
    THEN EhFrameEntries(libs[i].bias, libs[i].section, 1, oc, ub_checks)
    ELSE [kind |-> EachSharedLibrary(libs, i + 1, oc, ub_checks).kind,
          entries |->
              EhFrameEntries(libs[i].bias, libs[i].section, 1, oc,
                             ub_checks).entries
              \o EachSharedLibrary(libs, i + 1, oc, ub_checks).entries]

\* Options::find_eh_frame_entries, in a process with the shared libraries
\* libs: it returns Ok(self) where it returns.
FindEhFrameEntries(libs, ub_checks) ==
    /\ phase = "options"
    /\ pc = "idle"
    /\ ub_checks \in BOOLEAN
    /\ \E r \in {EachSharedLibrary(libs, 1, overflow_checks, ub_checks)} :
          /\ Len(entries) + Len(r.entries) <= MaxEntries
          /\ entries' = entries \o r.entries
          /\ added' = RecordedAll(added, r.entries)
          /\ pc' = IF r.kind = "Ok" THEN "idle" ELSE "panicked"
    /\ ingest' = NoIngest
    /\ UNCHANGED <<phase, reader, ctx, op, start_registers, registers,
                   result, ret, calls, overflow_checks, word_vars, row_vars>>

\* Options::clear_entries.
ClearEntries ==
    /\ phase = "options"
    /\ pc = "idle"
    /\ entries' = <<>>
    /\ added' = NoneAdded
    /\ ingest' = NoIngest
    /\ UNCHANGED <<phase, reader, ctx, pc, op, start_registers, registers,
                   result, ret, calls, overflow_checks, word_vars, row_vars>>

\* Options::build_with_reader_logger (build passes ThisProcessMemory).
Build(rdr) ==
    /\ phase = "options"
    /\ pc = "idle"
    /\ phase' = "walker"
    /\ entries' = SortEntries(entries)
    /\ reader' = rdr
    /\ ctx' = NewCtx
    /\ ingest' = NoIngest
    /\ UNCHANGED <<pc, op, start_registers, registers, result, ret, calls,
                   added, overflow_checks, word_vars, row_vars>>

(*************************************************************************)
(* Walker (src/lib.rs).                                                  *)
(*************************************************************************)
\* Walker::reconfigure: the Options again; the reader and logger go back
\* to the caller and the context is dropped.
Reconfigure ==
    /\ phase = "walker"
    /\ pc = "idle"
    /\ phase' = "options"
    /\ reader' = NoReader
    /\ ctx' = "None"
    /\ pc' = "idle"
    /\ op' = "none"
    /\ start_registers' = NoRegs
    /\ registers' = NoRegs
    /\ result' = NoValue
    /\ ret' = NoRet
    /\ calls' = <<>>
    /\ UNCHANGED <<entries, added, ingest, overflow_checks, word_vars,
                   row_vars>>

\* A call of walk_one on its own.
WalkOneCall(regs, ub_checks) ==
    /\ phase = "walker"
    /\ pc = "idle"
    /\ ub_checks \in BOOLEAN
    /\ \E w \in {walk_one(entries, reader, ctx, regs, overflow_checks,
                          ub_checks)} :
           /\ ctx' = w.ctx
           /\ calls' = <<WalkOneEvent(regs, w)>>
           /\ pc' = IF w.out.kind = "Panic" THEN "panicked" ELSE "idle"
    /\ op' = "walk_one"
    /\ start_registers' = regs
    /\ registers' = NoRegs
    /\ result' = NoValue
    /\ ret' = NoRet
    /\ UNCHANGED <<phase, entries, reader, added, ingest, overflow_checks,
                   word_vars, row_vars>>

\* The registers walk hands to walk_one: start_registers, at the first
\* call and inside the loop alike.
StepInput(start, regs) == start

\* A walk that skips a failed frame and steps again.
PcAfterStepRetries(out) ==
    CASE out.kind = "Ok"    -> "callback"
      [] out.kind = "Err"   -> "step"
      [] out.kind = "Panic" -> "panicked"

\* A walk that steps again without handing the frame to the callback.
PcAfterStepSkipsCallback(out) ==
    CASE out.kind = "Ok"    -> "step"
      [] out.kind = "Err"   -> "idle"
      [] out.kind = "Panic" -> "panicked"

\* Where walk goes after a walk_one: to the callback, or `?` returns.
PcAfterStep(out) ==
    CASE out.kind = "Ok"    -> "callback"
      [] out.kind = "Err"   -> "idle"
      [] out.kind = "Panic" -> "panicked"

\* A walk that ignores the callback's Break.
PcAfterCallbackIgnoresBreak(control) == "step"

\* Where walk goes after a callback: Break returns, else it steps.
PcAfterCallback(control) == IF control = "Break" THEN "idle" ELSE "step"

\* Walker::walk is called: nothing has run yet.
WalkBegin(start) ==
    /\ phase = "walker"
    /\ pc = "idle"
    /\ pc' = "callback"
    /\ op' = "walk"
    /\ start_registers' = start
    /\ registers' = NoRegs
    /\ result' = NoValue
    /\ ret' = NoRet
    /\ calls' = <<>>
    /\ UNCHANGED <<phase, entries, reader, ctx, added, ingest,
                   overflow_checks, word_vars, row_vars>>

\* The type T of the callback of the walk in progress, once it has run.
CallbackTypesNow ==
    IF EventsOf(calls, "callback") = {} THEN CallbackTypes
    ELSE {calls[1].value.ty}

\* `result = f(..)` and the test of its control signal: the callback runs
\* on start_registers first and on `registers` after each step.
WalkCallback(ty, val) ==
    /\ pc = "callback"
    /\ ty \in CallbackTypesNow
    /\ val \in ValuesOf(ty)
    /\ LET arg == IF calls = <<>> THEN start_registers ELSE registers
           v   == CallbackValue(ty, val, Cardinality(EventsOf(calls, "callback")) + 1)
           nxt == PcAfterCallback(as_stack_walk_control(v))
       IN  /\ result' = v
           /\ calls' = Append(calls, CallbackEvent(arg, v))
           /\ pc' = nxt
           /\ ret' = IF nxt = "idle" THEN WalkOk(v) ELSE ret
    /\ UNCHANGED <<phase, entries, reader, ctx, op, start_registers, registers,
                   added, ingest, overflow_checks, word_vars, row_vars>>

\* A step that drops the entry it has used from the table.
WalkStepDropsEntry ==
    /\ pc = "step"
    /\ Cardinality(EventsOf(calls, "walk_one")) < MaxSteps
    /\ \E ub_checks \in WalkChecks(entries,
                                   StepInput(start_registers, registers)) :
       LET input == StepInput(start_registers, registers)
           w     == walk_one(entries, reader, ctx, input, overflow_checks,
                             ub_checks)
           nxt   == PcAfterStep(w.out)
       IN  /\ ctx' = w.ctx
           /\ calls' = Append(calls, WalkOneEvent(input, w))
           /\ registers' = IF w.out.kind = "Ok" THEN w.out.regs ELSE registers
           /\ pc' = nxt
           /\ ret' = IF nxt = "idle" THEN WalkErr(w.out) ELSE ret
           /\ entries' = IF w.idx = 0 THEN entries
                         ELSE SubSeq(entries, 1, w.idx - 1)
                                  \o SubSeq(entries, w.idx + 1, Len(entries))
    /\ UNCHANGED <<phase, reader, op, start_registers, result, added, ingest,
                   overflow_checks, word_vars, row_vars>>

\* `registers = self.walk_one(start_registers)?`.
WalkStep ==
    /\ pc = "step"
    /\ Cardinality(EventsOf(calls, "walk_one")) < MaxSteps
    /\ \E ub_checks \in WalkChecks(entries,
                                   StepInput(start_registers, registers)) :
       LET input == StepInput(start_registers, registers)
           w     == walk_one(entries, reader, ctx, input, overflow_checks,
                             ub_checks)
           nxt   == PcAfterStep(w.out)
       IN  /\ ctx' = w.ctx
           /\ calls' = Append(calls, WalkOneEvent(input, w))
           /\ registers' = IF w.out.kind = "Ok" THEN w.out.regs ELSE registers
           /\ pc' = nxt
           /\ ret' = IF nxt = "idle" THEN WalkErr(w.out) ELSE ret
    /\ UNCHANGED <<phase, entries, reader, op, start_registers, result,
                   added, ingest, overflow_checks, word_vars, row_vars>>

Next ==
    \/ \E e \in EntryUniverse : AddEntry(e)
    \/ \E b \in EntryBatches : AddEntries(b)
    \/ \E i \in EhFrameInputs : \E u \in BOOLEAN :
          AddEntriesFromEhFrame(i.bias, i.section, u)
    \/ \E l \in SharedLibraries : \E u \in BOOLEAN :
          FindEhFrameEntries(l, u)
    \/ ClearEntries
    \/ \E rdr \in Readers : Build(rdr)
    \/ Reconfigure
    \/ \E r \in StartRegisters :
          \E u \in WalkChecks(entries, r) :
              WalkOneCall(r, u)
    \/ \E r \in StartRegisters : WalkBegin(r)
    \/ \E ty \in CallbackTypes : \E val \in ValuesOf(ty) : WalkCallback(ty, val)
    \/ WalkStep

Spec == Init /\ [][Next]_vars

(*************************************************************************)
(* The TaggedWord operators, applied to every pair of operands.          *)
(*************************************************************************)
InitWord ==
    /\ OptionsNew
    /\ overflow_checks \in BOOLEAN
    /\ lhs \in TaggedWords
    /\ rhs \in TaggedWords
    /\ opname = "none"
    /\ opout = Done(Invalid)
    /\ conv = NoConv
    /\ RowsIdle

\* `lhs op rhs`.
ApplyBinop(o) ==
    /\ opname = "none"
    /\ opname' = o
    /\ opout' = Binop(o, lhs, rhs)
    /\ UNCHANGED <<lhs, rhs, conv, walker_vars, overflow_checks, row_vars>>

\* `a op= rhs` on a variable a holding lhs: opout is the a it leaves.
ApplyBinopAssign(o) ==
    /\ opname = "none"
    /\ opname' = AssignName(o)
    /\ opout' = BinopAssign(o, lhs, rhs)
    /\ UNCHANGED <<lhs, rhs, conv, walker_vars, overflow_checks, row_vars>>

\* `TaggedWord::from(r)` on a Result r.
ApplyFromResult(r) ==
    /\ opname = "none"
    /\ opname' = "from_result"
    /\ conv' = Conv(r, NoFunction, 0, from_result(r), ResultErr(""), 0, <<>>)
    /\ UNCHANGED <<lhs, rhs, opout, walker_vars, overflow_checks, row_vars>>

\* `lhs.into()`, a Result.
ApplyIntoResult ==
    /\ opname = "none"
    /\ opname' = "into_result"
    /\ conv' = Conv(ResultErr(""), NoFunction, 0, Invalid, into_result(lhs), 0,
                    <<>>)
    /\ UNCHANGED <<lhs, rhs, opout, walker_vars, overflow_checks, row_vars>>

\* lhs converted to a Result and that Result to a TaggedWord.
ApplyRoundTrip ==
    /\ opname = "none"
    /\ opname' = "round_trip"
    /\ conv' = Conv(into_result(lhs), NoFunction, 0,
                    from_result(into_result(lhs)), into_result(lhs), 0, <<>>)
    /\ UNCHANGED <<lhs, rhs, opout, walker_vars, overflow_checks, row_vars>>

\* `TaggedWord::default()`.
ApplyDefault ==
    /\ opname = "none"
    /\ opname' = "default"
    /\ conv' = Conv(ResultErr(""), NoFunction, 0, default, ResultErr(""), 0, <<>>)
    /\ UNCHANGED <<lhs, rhs, opout, walker_vars, overflow_checks, row_vars>>

\* `lhs.map(f)`.
ApplyMap(f) ==
    /\ opname = "none"
    /\ opname' = "map"
    /\ conv' = Conv(ResultErr(""), f, 0, map(lhs, f), ResultErr(""), 0,
                    CallsOfF(lhs))
    /\ UNCHANGED <<lhs, rhs, opout, walker_vars, overflow_checks, row_vars>>

\* `lhs.and_then(f)`.
ApplyAndThen(f) ==
    /\ opname = "none"
    /\ opname' = "and_then"
    /\ conv' = Conv(ResultErr(""), f, 0, and_then(lhs, f), ResultErr(""), 0,
                    CallsOfF(lhs))
    /\ UNCHANGED <<lhs, rhs, opout, walker_vars, overflow_checks, row_vars>>

\* `lhs.unwrap_or(d)`.
ApplyUnwrapOr(d) ==
    /\ opname = "none"
    /\ opname' = "unwrap_or"
    /\ conv' = Conv(ResultErr(""), NoFunction, d, Invalid, ResultErr(""),
                    unwrap_or(lhs, d), <<>>)
    /\ UNCHANGED <<lhs, rhs, opout, walker_vars, overflow_checks, row_vars>>

NextWord ==
    \/ \E o \in BinOps : ApplyBinop(o)
    \/ \E o \in BinOps : ApplyBinopAssign(o)
    \/ \E r \in Results : ApplyFromResult(r)
    \/ ApplyIntoResult
    \/ ApplyRoundTrip
    \/ ApplyDefault
    \/ \E f \in MapFunctions : ApplyMap(f)
    \/ \E f \in AndThenFunctions : ApplyAndThen(f)
    \/ \E d \in Word : ApplyUnwrapOr(d)

SpecWord == InitWord /\ [][NextWord]_vars

(*************************************************************************)
(* The rule evaluator and read_offset, applied to every input.           *)
(*************************************************************************)
InitRow ==
    /\ OptionsNew
    /\ overflow_checks \in BOOLEAN
    /\ WordsIdle
    /\ rowop = "none"
    /\ old_registers \in OldRegisters
    /\ row_reader = RowMemory
    /\ rowargs = NoRowArgs
    /\ rowout = NoRowOut

\* reader.read_offset(addr, offset).
ReadOffset(addr, offset) ==
    /\ rowop = "none"
    /\ rowop' = "read_offset"
    /\ rowargs' = RowArgs(RowDecodeError, Rule("Undefined", 0), 0, addr, offset)
    /\ rowout' = RowOut(NoResult, Done(Invalid),
                        read_offset(row_reader, addr, offset, overflow_checks),
                        ReadOffsetReads(addr, offset, overflow_checks), <<>>)
    /\ UNCHANGED <<old_registers, row_reader, walker_vars, overflow_checks,
                   word_vars>>

\* old_registers.eval_register_rule(rule, cfa, reader).
EvalRegisterRule(rule, cfa) ==
    /\ rowop = "none"
    /\ rowop' = "eval_register_rule"
    /\ rowargs' = RowArgs(RowDecodeError, rule, cfa, 0, 0)
    /\ rowout' = RowOut(NoResult,
                        eval_register_rule(old_registers, rule, cfa, row_reader,
                                           overflow_checks),
                        NoRead, RuleReads(rule, cfa, overflow_checks), <<>>)
    /\ UNCHANGED <<old_registers, row_reader, walker_vars, overflow_checks,
                   word_vars>>

\* FrameRegisters::from_unwind_table_row(row, old_registers, reader).
FromUnwindTableRow(row) ==
    /\ rowop = "none"
    /\ rowop' = "from_unwind_table_row"
    /\ rowargs' = RowArgs(row, Rule("Undefined", 0), 0, 0, 0)
    /\ rowout' = RowOut(from_unwind_table_row(row, old_registers, row_reader,
                                              overflow_checks),
                        Done(Invalid), NoRead,
                        from_unwind_table_row_reads(row, old_registers,
                                                    row_reader, overflow_checks),
                        from_unwind_table_row_evaluated(row, old_registers,
                                                        row_reader,
                                                        overflow_checks))
    /\ UNCHANGED <<old_registers, row_reader, walker_vars, overflow_checks,
                   word_vars>>

\* ThisProcessMemory.read(addr), in a process whose mapped memory is
\* row_reader; out is what the call gives.
ReadThisProcessMemory(addr, out) ==
    /\ rowop = "none"
    /\ out \in ThisProcessMemoryRead(row_reader, addr)
    /\ rowop' = "this_process_memory_read"
    /\ rowargs' = RowArgs(RowDecodeError, Rule("Undefined", 0), 0, addr, 0)
    /\ rowout' = RowOut(NoResult, Done(Invalid), out, <<>>, <<>>)
    /\ UNCHANGED <<old_registers, row_reader, walker_vars, overflow_checks,
                   word_vars>>

\* One function is applied to the inputs, once.
NextRow ==
    \/ rowop = "none" /\ \E a \in Word : \E o \in Offsets : ReadOffset(a, o)
    \/ rowop = "none" /\ \E r \in EvalRules : \E c \in Word : EvalRegisterRule(r, c)
    \/ rowop = "none" /\ \E r \in RowInputs : FromUnwindTableRow(r)
    \/ rowop = "none" /\ \E a \in Word :
          \E out \in ThisProcessMemoryRead(row_reader, a) :
              ReadThisProcessMemory(a, out)

SpecRow == InitRow /\ [][NextRow]_vars

(*************************************************************************)
(* One Walker called again and again: walk_one after walk_one on the     *)
(* Walker that build has made of a table, calls holding every call made  *)
(* on it so far.                                                         *)
(*************************************************************************)
\* The entries added, in the order of their addition, before the build.
HistoryTables == UNION {[1 .. n -> EntryUniverse] : n \in 0 .. MaxEntries}

\* The registers walk_one is called with: an ip outside every entry, in
\* each of the descriptors, and Invalid.
HistoryRegisters ==
    {Regs(Valid(8), Valid(6), Valid(ip)) : ip \in {0, 1, 4, 6, 10}}
    \cup {Regs(Valid(8), Valid(6), Invalid)}

\* The Walker of Options::build_with_reader_logger on the entries added.
InitHistory ==
    /\ phase = "walker"
    /\ \E seq \in HistoryTables :
          /\ entries = SortEntries(seq)
          /\ added = RecordedAll(NoneAdded, seq)
    /\ reader \in Readers
    /\ ctx = NewCtx
    /\ ingest = NoIngest
    /\ NoCall
    /\ overflow_checks \in BOOLEAN
    /\ WordsIdle
    /\ RowsIdle

\* One more walk_one on the Walker, after those it has returned from.
WalkOneAgain(regs, ub_checks) ==
    /\ phase = "walker"
    /\ pc = "idle"
    /\ Len(calls) < MaxSteps
    /\ ub_checks \in BOOLEAN
    /\ \E w \in {walk_one(entries, reader, ctx, regs, overflow_checks,
                          ub_checks)} :
           /\ ctx' = w.ctx
           /\ calls' = Append(calls, WalkOneEvent(regs, w))
           /\ pc' = IF w.out.kind = "Panic" THEN "panicked" ELSE "idle"
    /\ op' = "walk_one"
    /\ start_registers' = regs
    /\ UNCHANGED <<phase, entries, reader, registers, result, ret, added,
                   ingest, overflow_checks, word_vars, row_vars>>

NextHistory ==
    \E r \in HistoryRegisters :
        \E u \in WalkChecks(entries, r) :
            WalkOneAgain(r, u)

SpecHistory == InitHistory /\ [][NextHistory]_vars

(*************************************************************************)
(* Properties.                                                           *)
(*************************************************************************)
\* The walk begun last is walk.
InWalk == phase = "walker" /\ op = "walk"

Callbacks == EventsOf(calls, "callback")

Steps == EventsOf(calls, "walk_one")

\* The greatest element of a non-empty set of numbers.
Greatest(S) == CHOOSE x \in S : \A y \in S : y <= x

\* Does the half-open range of the entry contain ip?
InRange(e, ip) == e.range.start <= ip /\ ip < e.range.end

\* The table is one of pairwise disjoint ranges sorted by range start.
DisjointSorted(s) ==
    \A i, j \in 1 .. Len(s) : i < j => s[i].range.end <= s[j].range.start

\* The walk_one executed last, when the log ends with one.
LastIsWalkOne == calls # <<>> /\ calls[Len(calls)].ev = "walk_one"

LastCall == calls[Len(calls)]

\* C1: in walk, the first walk_one is given start_registers and every
\* later walk_one is given the registers the walk_one before it returned.
C1_StepsChained ==
    InWalk =>
        \A i \in Steps :
            LET earlier == {j \in Steps : j < i}
            IN  IF earlier = {}
                THEN calls[i].regs = start_registers
                ELSE calls[i].regs = calls[Greatest(earlier)].out.regs

\* The frames start, step(start), step(step(start)) when these are three
\* nested frames of three functions with no unwind info for the caller of
\* the third; <<>> when start is no such innermost frame.
NestedFrames(s, rdr, start, oc) ==
    LET one == walk_one(s, rdr, NewCtx, start, oc, FALSE).out
    IN  IF one.kind # "Ok" THEN <<>>
        ELSE LET two == walk_one(s, rdr, NewCtx, one.regs, oc, FALSE).out
             IN  IF two.kind # "Ok" THEN <<>>
                 ELSE LET three == walk_one(s, rdr, NewCtx, two.regs, oc, FALSE).out
                      IN  IF /\ three.kind = "Err"
                             /\ three.err = "NoUnwindInfoForAddress"
                             /\ start.ip # one.regs.ip
                             /\ one.regs.ip # two.regs.ip
                             /\ start.ip # two.regs.ip
                          THEN <<start, one.regs, two.regs>>
                          ELSE <<>>

\* C2: on three nested frames C, B, A, a walk from C whose callback always
\* continues invokes the callback on C, B, A in that order and nothing
\* else, makes no more than three steps, and returns
\* Err(NoUnwindInfoForAddress).
C2_NestedFramesWalkEnds ==
    LET frames == NestedFrames(entries, reader, start_registers, overflow_checks)
    IN  (/\ InWalk
         /\ frames # <<>>
         /\ \A i \in Callbacks : as_stack_walk_control(calls[i].value) = "Continue")
        =>
        /\ Cardinality(Callbacks) <= 3
        /\ Cardinality(Steps) <= 3
        /\ \A i \in Callbacks :
              calls[i].regs = frames[Cardinality({j \in Callbacks : j <= i})]
        /\ (pc = "idle" =>
              /\ Cardinality(Callbacks) = 3
              /\ ret.kind = "Err"
              /\ ret.err = "NoUnwindInfoForAddress")

\* C3: walk runs the callback once on start_registers before any
\* walk_one, and once after each successful walk_one, on its result: the
\* callbacks number one more than the successful walk_one calls.
C3_CallbackPerFrame ==
    InWalk =>
        /\ calls # <<>> =>
              calls[1].ev = "callback" /\ calls[1].regs = start_registers
        /\ \A i \in Callbacks :
              i > 1 => /\ calls[i - 1].ev = "walk_one"
                       /\ calls[i - 1].out.kind = "Ok"
                       /\ calls[i].regs = calls[i - 1].out.regs
        /\ \A i \in Steps :
              calls[i].out.kind = "Ok" =>
                  IF i = Len(calls) THEN pc = "callback"
                  ELSE calls[i + 1].ev = "callback"
        /\ pc # "callback" =>
              Cardinality(Callbacks)
                  = 1 + Cardinality({i \in Steps : calls[i].out.kind = "Ok"})

\* A walk has returned after two calls of the callback or more.
C3_Witness ==
    InWalk /\ pc = "idle" /\ Cardinality(Callbacks) >= 3 /\ ret.kind = "Ok"

\* C4: once a callback's value converts to Break, walk returns Ok with
\* that very value: that callback is the last call of the walk, and a
\* callback breaking at its k-th call has been called k times.
C4_BreakReturnsAtOnce ==
    InWalk =>
        \A i \in Callbacks :
            as_stack_walk_control(calls[i].value) = "Break" =>
                /\ i = Len(calls)
                /\ pc = "idle"
                /\ ret = WalkOk(calls[i].value)
                /\ calls[i].value.id = Cardinality(Callbacks)

\* A walk returned on the Break of its second callback, after one step.
C4_Witness ==
    /\ InWalk
    /\ pc = "idle"
    /\ ret.kind = "Ok"
    /\ as_stack_walk_control(ret.value) = "Break"
    /\ Cardinality(Callbacks) = 2
    /\ Cardinality(Steps) = 1

\* C5: the first error of a walk_one inside walk is what walk returns,
\* and it is the last call of the walk: no callback and no walk_one
\* follows it.
C5_FirstErrorIsTerminal ==
    InWalk =>
        \A i \in Steps :
            calls[i].out.kind = "Err" =>
                /\ i = Len(calls)
                /\ pc = "idle"
                /\ ret = WalkErr(calls[i].out)

\* A walk returned the NoUnwindInfoForAddress of its first step.
C5_Witness ==
    /\ InWalk
    /\ pc = "idle"
    /\ ret.kind = "Err"
    /\ ret.err = "NoUnwindInfoForAddress"
    /\ LastIsWalkOne
    /\ Cardinality(Callbacks) = 1

\* C6: whenever walk_one has returned, Ok or Err, the Walker holds its
\* decode context: a Walker on which no call panicked never has
\* ctx = None.
C6_ContextPresentAtReturn ==
    (phase = "walker" /\ pc # "panicked") => ctx # "None"

\* A walk_one returned an error of the CFA rule, met after the context was
\* taken, and the context is back.
C6_Witness ==
    /\ phase = "walker"
    /\ pc = "idle"
    /\ LastIsWalkOne
    /\ LastCall.out.kind = "Err"
    /\ LastCall.out.err = "UnknownRegister"
    /\ LastCall.idx # 0
    /\ ctx # "None"

\* C7: a walk_one on a valid ip that no entry's range [start, end)
\* contains returns Err(NoUnwindInfoForAddress(ip)) and leaves the Walker
\* as a fresh one, so that the next walk_one gives what it gives on a
\* fresh Walker.
C7_NoEntryThenUsable ==
    (/\ phase = "walker"
     /\ op = "walk_one"
     /\ LastIsWalkOne
     /\ LastCall.regs.ip.valid
     /\ \A i \in 1 .. Len(entries) : ~InRange(entries[i], LastCall.regs.ip.word))
    =>
    /\ LastCall.out = Err("NoUnwindInfoForAddress", LastCall.regs.ip.word)
    /\ pc = "idle"
    /\ ctx = NewCtx

\* C8: on a table of pairwise disjoint ranges sorted by start, the lookup
\* of walk_one finds the entry whose range [start, end) contains the
\* address, and finds nothing for an address that no range contains.
C8_LookupFindsCoveringEntry ==
    (/\ phase = "walker"
     /\ LastIsWalkOne
     /\ LastCall.regs.ip.valid
     /\ DisjointSorted(entries))
    =>
    LET ip == LastCall.regs.ip.word
        covering == {i \in 1 .. Len(entries) : InRange(entries[i], ip)}
    IN  IF covering = {} THEN LastCall.idx = 0 ELSE LastCall.idx \in covering

\* C9: ranges are half-open: the lookup does not match an ip with the
\* entry whose end address it is, and fails NoUnwindInfoForAddress when no
\* entry starts there; it matches an ip with the entry that starts at it.
C9_EndAddressExcluded ==
    (/\ phase = "walker"
     /\ LastIsWalkOne
     /\ LastCall.regs.ip.valid
     /\ DisjointSorted(entries))
    =>
    LET ip == LastCall.regs.ip.word
    IN  \A i \in 1 .. Len(entries) :
            /\ entries[i].range.end = ip => LastCall.idx # i
            /\ (/\ entries[i].range.end = ip
                /\ \A j \in 1 .. Len(entries) : entries[j].range.start # ip)
               => /\ LastCall.idx = 0
                  /\ LastCall.out = Err("NoUnwindInfoForAddress", ip)
            /\ entries[i].range.start = ip => LastCall.idx = i

\* C10: a binary operator or its assigning form on operands of which one
\* at least is Invalid gives Invalid, and does not panic.
C10_InvalidOperandGivesInvalid ==
    (opname # "none" /\ (~lhs.valid \/ ~rhs.valid)) => opout = Done(Invalid)

\* `a /= b` was applied to a valid a and an invalid b.
C10_Witness ==
    /\ opname = "div_assign"
    /\ lhs.valid
    /\ ~rhs.valid
    /\ opout = Done(Invalid)

\* Bit i of the word x.
BitOf(x, i) == (x \div (2 ^ i)) % 2

\* The word (x op y) mod 2^W.
WrappedOp(o, x, y) ==
    CASE o = "add" -> (x + y) % Modulus
      [] o = "sub" -> CHOOSE z \in Word : (z + y) % Modulus = x
      [] o = "mul" -> (x * y) % Modulus
      [] o = "bitand" ->
            CHOOSE z \in Word : \A i \in 0 .. (WordBits - 1) :
                BitOf(z, i) = 1 <=> (BitOf(x, i) = 1 /\ BitOf(y, i) = 1)
      [] o = "bitor" ->
            CHOOSE z \in Word : \A i \in 0 .. (WordBits - 1) :
                BitOf(z, i) = 1 <=> (BitOf(x, i) = 1 \/ BitOf(y, i) = 1)
      [] o = "bitxor" ->
            CHOOSE z \in Word : \A i \in 0 .. (WordBits - 1) :
                BitOf(z, i) = 1 <=> (BitOf(x, i) # BitOf(y, i))

\* C11: on valid a and b, each of +, -, *, &, |, ^ gives
\* Valid((a.word op b.word) mod 2^W): overflow and underflow wrap around
\* and do not panic.
C11_ValidOperandsWrap ==
    (/\ opname \in {"add", "sub", "mul", "bitand", "bitor", "bitxor"}
     /\ lhs.valid
     /\ rhs.valid)
    => opout = Done(Valid(WrappedOp(opname, lhs.word, rhs.word)))

\* Valid(MAX) + Valid(1) was computed and gave Valid(0).
C11_Witness ==
    /\ opname = "add"
    /\ lhs = Valid(Modulus - 1)
    /\ rhs = Valid(1)
    /\ opout = Done(Valid(0))

\* C12: a / b, a % b, a /= b and a %= b on valid a and b, b = Valid(0)
\* included, complete with a TaggedWord: none panics.
C12_DivisionIsTotal ==
    (/\ opname \in {"div", "rem", "div_assign", "rem_assign"}
     /\ lhs.valid
     /\ rhs.valid)
    => ~opout.panic

\* The register numbers FrameRegisters tracks.
Tracked(r) == r \in {BP, SP, IP}

\* The old value of the tracked register r.
OldOf(old, r) ==
    CASE r = BP -> old.bp
      [] r = SP -> old.sp
      [] r = IP -> old.ip

\* The address a + n, n signed, mod 2^W.
SignedSum(a, n) == (a + n + Modulus) % Modulus

\* What a read of the reader at address a gives, as a TaggedWord.
TaggedRead(rdr, a) == IF rdr[a].ok THEN Valid(rdr[a].word) ELSE Invalid

RowApplied == rowop = "from_unwind_table_row"

RuleApplied == rowop = "eval_register_rule"

\* C13: on a row with CFA rule RegisterAndOffset{sp, o} and rules
\* {bp: SameValue, sp: ValOffset(o), ip: Offset(n)} and a valid old sp,
\* from_unwind_table_row takes the CFA to be old sp + o and returns
\* {bp: old bp, sp: Valid(CFA), ip: the word read at CFA + n}.
C13_CfaIsRegisterPlusOffset ==
    (/\ RowApplied
     /\ rowargs.row.cfa.rule = "RegisterAndOffset"
     /\ rowargs.row.cfa.register = SP
     /\ old_registers.sp.valid
     /\ rowargs.row.bp.rule = "SameValue"
     /\ rowargs.row.sp = Rule("ValOffset", rowargs.row.cfa.offset)
     /\ rowargs.row.ip.rule = "Offset")
    =>
    LET cfa == SignedSum(old_registers.sp.word, rowargs.row.cfa.offset)
    IN  rowout.res =
            Ok(Regs(old_registers.bp, Valid(cfa),
                    TaggedRead(row_reader, SignedSum(cfa, rowargs.row.ip.n))))

\* C14: a tracked register whose rule is SameValue gets the old value of
\* that same register: bp of bp, sp of sp, ip of ip.
C14_SameValueKeepsRegister ==
    (RowApplied /\ rowout.res.kind = "Ok") =>
        /\ rowargs.row.bp.rule = "SameValue" =>
              rowout.res.regs.bp = old_registers.bp
        /\ rowargs.row.sp.rule = "SameValue" =>
              rowout.res.regs.sp = old_registers.sp
        /\ rowargs.row.ip.rule = "SameValue" =>
              rowout.res.regs.ip = old_registers.ip

\* C15: the rule ValOffset(n) gives Valid((CFA + n) mod 2^W) for negative
\* and non-negative n alike, without a call of the reader.
C15_ValOffsetAddsSigned ==
    (RuleApplied /\ rowargs.rule.rule = "ValOffset") =>
        /\ rowout.word = Done(Valid(SignedSum(rowargs.cfa, rowargs.rule.n)))
        /\ rowout.reads = <<>>

\* C16: read_offset(addr, offset) reads the address (addr + offset) mod 2^W
\* and no other, for every signed offset, and gives what the reader gives
\* there: it does not panic when the sum leaves the word range.
C16_ReadOffsetAddsSigned ==
    rowop = "read_offset" =>
        LET a == SignedSum(rowargs.addr, rowargs.offset)
        IN  /\ rowout.reads = <<a>>
            /\ rowout.read =
                  (IF row_reader[a].ok
                   THEN [kind |-> "Ok", word |-> row_reader[a].word]
                   ELSE [kind |-> "Err", word |-> 0])

\* The rules whose evaluation is specified to give a word whatever the
\* reader answers.
IsWordRule(rule) ==
    rule.rule \in {"Undefined", "SameValue", "Offset", "ValOffset", "Register"}

\* C17: the rule Offset(n) gives Valid(v) when the read at CFA + n gives v
\* and Invalid when it fails; from_unwind_table_row, once it has the CFA,
\* returns Ok whatever the reads of the register rules give, having
\* evaluated the rules of bp, sp and ip.
C17_OffsetRuleReadsOrInvalid ==
    /\ (RuleApplied /\ rowargs.rule.rule = "Offset") =>
          rowout.word =
              Done(TaggedRead(row_reader, SignedSum(rowargs.cfa, rowargs.rule.n)))
    /\ (/\ RowApplied
        /\ RowCfa(rowargs.row, old_registers, row_reader, overflow_checks).kind = "Ok"
        /\ IsWordRule(rowargs.row.bp)
        /\ IsWordRule(rowargs.row.sp)
        /\ IsWordRule(rowargs.row.ip)
        /\ "Offset" \in {rowargs.row.bp.rule, rowargs.row.sp.rule, rowargs.row.ip.rule})
       => /\ rowout.res.kind = "Ok"
          /\ rowout.evaluated = <<"bp", "sp", "ip">>

\* C18: the rule Register(r) gives the old value of register r when r is
\* 6, 7 or 16 and Invalid for any other r, and from_unwind_table_row does
\* not return UnknownRegister for the register of a register rule: only
\* for that of the CFA rule.
C18_RegisterRuleCopiesOrInvalid ==
    /\ (RuleApplied /\ rowargs.rule.rule = "Register") =>
          /\ rowout.word =
                Done(IF Tracked(rowargs.rule.n)
                     THEN OldOf(old_registers, rowargs.rule.n)
                     ELSE Invalid)
          /\ rowout.reads = <<>>
    /\ (/\ RowApplied
        /\ "Register" \in {rowargs.row.bp.rule, rowargs.row.sp.rule, rowargs.row.ip.rule}
        /\ IsWordRule(rowargs.row.bp)
        /\ IsWordRule(rowargs.row.sp)
        /\ IsWordRule(rowargs.row.ip)
        /\ rowargs.row.cfa.rule = "RegisterAndOffset"
        /\ Tracked(rowargs.row.cfa.register))
       => ~(rowout.res.kind = "Err" /\ rowout.res.err = "UnknownRegister")

\* from_unwind_table_row returned Ok on a row whose bp rule names the
\* untracked register 3 and whose sp rule names sp: bp is Invalid and sp
\* is the old sp.
C18_Witness ==
    /\ RowApplied
    /\ rowargs.row.bp = Rule("Register", 3)
    /\ rowargs.row.sp = Rule("Register", SP)
    /\ old_registers.sp.valid
    /\ rowout.res.kind = "Ok"
    /\ rowout.res.regs.bp = Invalid
    /\ rowout.res.regs.sp = old_registers.sp

\* C19: on a CFA rule RegisterAndOffset{register, offset},
\* from_unwind_table_row returns Err(UnknownRegister(register)) for an
\* untracked register, Err(InvalidTaggedWord) for a tracked one whose old
\* value is Invalid, and the reader's error when the read fails; in each
\* case no register rule is evaluated, and the read is made in the third
\* case alone.
C19_CfaErrorsInOrder ==
    (RowApplied /\ rowargs.row.cfa.rule = "RegisterAndOffset") =>
        LET r == rowargs.row.cfa.register
        IN  /\ ~Tracked(r) =>
                  /\ rowout.res = Err("UnknownRegister", r)
                  /\ rowout.evaluated = <<>>
                  /\ rowout.reads = <<>>
            /\ (Tracked(r) /\ ~OldOf(old_registers, r).valid) =>
                  /\ rowout.res = Err("InvalidTaggedWord", 0)
                  /\ rowout.evaluated = <<>>
                  /\ rowout.reads = <<>>
            /\ (/\ Tracked(r)
                /\ OldOf(old_registers, r).valid
                /\ rowout.reads # <<>>
                /\ ~row_reader[rowout.reads[1]].ok) =>
                  /\ rowout.res = Err("Io", 0)
                  /\ rowout.evaluated = <<>>
                  /\ Len(rowout.reads) = 1

\* The read of the CFA through the reader failed and its error was
\* returned.
C19_Witness ==
    /\ RowApplied
    /\ rowargs.row.cfa.rule = "RegisterAndOffset"
    /\ rowargs.row.cfa.register = SP
    /\ old_registers.sp.valid
    /\ Len(rowout.reads) = 1
    /\ ~row_reader[rowout.reads[1]].ok
    /\ rowout.res = Err("Io", 0)

\* C20: walk_one does not panic: whatever the table, the rows, the
\* registers and the reader, it returns Ok(registers) or Err(error).
C20_WalkOneNeverPanics ==
    \A i \in 1 .. Len(calls) :
        calls[i].ev = "walk_one" => calls[i].out.kind \in {"Ok", "Err"}

\* The control signal of each callback return value.
ExpectedControl(v) ==
    IF v.ty = "Control" THEN v.val
    ELSE IF v.ty = "Result" /\ v.val = "Err" THEN "Break"
    ELSE "Continue"

\* C22: a () value converts to Continue, a Result to Continue when Ok and
\* to Break when Err, a StackWalkControl to itself, and a value of a type
\* that keeps the default method to Continue: walk returns on the callback
\* values that so convert to Break and goes on to step on the others.
C22_ControlConversion ==
    InWalk =>
        \A i \in Callbacks :
            /\ as_stack_walk_control(calls[i].value) = ExpectedControl(calls[i].value)
            /\ ExpectedControl(calls[i].value) = "Break" =>
                  (i = Len(calls) /\ pc = "idle")
            /\ ExpectedControl(calls[i].value) = "Continue" =>
                  (i < Len(calls) \/ pc = "step")

\* A walk whose callback returns a Result went on after Ok and returned on
\* Err.
C22_Witness ==
    /\ InWalk
    /\ pc = "idle"
    /\ Len(calls) = 3
    /\ calls[1].value.ty = "Result"
    /\ calls[1].value.val = "Ok"
    /\ calls[2].ev = "walk_one"
    /\ calls[3].value.val = "Err"
    /\ ret = WalkOk(calls[3].value)

\* The number of times e occurs in the sequence s.
Count(s, e) == Cardinality({i \in 1 .. Len(s) : s[i] = e})

\* C23: the table holds the entries added since the last clear_entries,
\* each as many times as it was added, and the table of a Walker is
\* sorted by range start, whatever the order of insertion and however
\* many builds and reconfigures were made.
C23_TableSortedSameEntries ==
    /\ \A i \in 1 .. Len(entries) : entries[i] \in AllEntries
    /\ \A e \in AllEntries : Count(entries, e) = added[e]
    /\ phase = "walker" =>
          \A i, j \in 1 .. Len(entries) :
              i < j => entries[i].range.start <= entries[j].range.start

\* A Walker holds three entries of different starts, one of them added
\* twice.
C23_Witness ==
    /\ phase = "walker"
    /\ Len(entries) = 3
    /\ entries[1].range.start < entries[3].range.start
    /\ \E e \in AllEntries : added[e] = 2

\* C24: a walk_one on registers whose ip is Invalid returns
\* Err(InvalidTaggedWord) without a lookup, and leaves the table, the
\* reader and the decode context of the Walker as they were.
C24_InvalidIpFailsFirst ==
    [][(/\ calls' # calls
        /\ calls' # <<>>
        /\ calls'[Len(calls')].ev = "walk_one"
        /\ ~calls'[Len(calls')].regs.ip.valid)
       => /\ calls'[Len(calls')].out = Err("InvalidTaggedWord", 0)
          /\ calls'[Len(calls')].idx = 0
          /\ phase' = phase
          /\ entries' = entries
          /\ reader' = reader
          /\ ctx' = ctx]_vars

\* A walk_one on an invalid ip has returned Err(InvalidTaggedWord) on a
\* Walker with a table of entries.
C24_Witness ==
    /\ phase = "walker"
    /\ entries # <<>>
    /\ LastIsWalkOne
    /\ ~LastCall.regs.ip.valid
    /\ LastCall.out = Err("InvalidTaggedWord", 0)
    /\ ctx = NewCtx

\* Does the half-open range of the row, moved by bias, contain ip?
InRowRange(row, bias, ip) ==
    /\ row.decoded
    /\ (row.start + bias) % Modulus <= ip
    /\ ip < (row.end + bias) % Modulus

\* The rows of the entry at which the scan for ip ends: those that fail to
\* decode and those that contain ip.
ScanStops(e, ip) ==
    {i \in 1 .. Len(e.fde.rows) :
        ~e.fde.rows[i].decoded \/ InRowRange(e.fde.rows[i], e.bias, ip)}

\* The least element of a non-empty set of numbers.
Least(S) == CHOOSE x \in S : \A y \in S : x <= y

\* C25: in the entry the lookup matched, walk_one gives what the first row
\* containing ip evaluates to, the decoder's error when a row before it
\* fails to decode, and NoUnwindInfoForAddress(ip) when no row of that
\* entry contains ip; the rows of the other entries play no part.
C25_FirstCoveringRow ==
    (/\ phase = "walker"
     /\ LastIsWalkOne
     /\ LastCall.idx # 0
     /\ entries[LastCall.idx].fde.cie_ok)
    =>
    LET e == entries[LastCall.idx]
        ip == LastCall.regs.ip.word
    IN  IF ScanStops(e, ip) = {}
        THEN LastCall.out = Err("NoUnwindInfoForAddress", ip)
        ELSE IF ~e.fde.rows[Least(ScanStops(e, ip))].decoded
        THEN LastCall.out = Err("Gimli", 0)
        ELSE LastCall.out =
                 from_unwind_table_row(e.fde.rows[Least(ScanStops(e, ip))],
                                       LastCall.regs, reader, overflow_checks)

\* A walk_one returned Ok from the second row of its entry, the first not
\* containing ip.
C25_Witness ==
    /\ phase = "walker"
    /\ LastIsWalkOne
    /\ LastCall.idx # 0
    /\ LastCall.out.kind = "Ok"
    /\ Least(ScanStops(entries[LastCall.idx], LastCall.regs.ip.word)) = 2

\* C26: walk_one and walk leave the table of the Walker, its reader and
\* the registers they were called with as they were, whether a step
\* succeeds or fails, and the calls made earlier in a walk stay as made.
C26_TableUnchangedByWalking ==
    [][(phase = "walker" /\ phase' = "walker")
       => /\ entries' = entries
          /\ reader' = reader
          /\ pc # "idle" =>
                /\ start_registers' = start_registers
                /\ Len(calls') >= Len(calls)
                /\ SubSeq(calls', 1, Len(calls)) = calls]_vars

\* A walk of two steps or more has ended, on a Walker with a table of
\* entries.
C26_Witness ==
    /\ InWalk
    /\ pc = "idle"
    /\ ret.kind # "None"
    /\ Cardinality(Steps) >= 2
    /\ entries # <<>>

\* The frame descriptors of a section, in order.
FdesOf(section) == SelectSeq(section, LAMBDA r : r.kind = "Fde")

\* C27: a call of add_entries_from_eh_frame that returns Ok has appended
\* one entry for each frame descriptor of the section, in order, and none
\* for a CIE; each entry carries the bias and the descriptor, its range
\* starts at initial_address + bias, start <= end, and end - start is the
\* length of the descriptor.
C27_OneEntryPerDescriptor ==
    (ingest.called /\ ingest.kind = "Ok") =>
        /\ Len(entries) = ingest.base + Len(FdesOf(ingest.section))
        /\ \A k \in 1 .. Len(FdesOf(ingest.section)) :
              LET e == entries[ingest.base + k]
                  fde == FdesOf(ingest.section)[k].fde
              IN  /\ e.bias = ingest.bias
                  /\ e.fde = fde
                  /\ e.range.start = (fde.initial_address + ingest.bias) % Modulus
                  /\ e.range.start <= e.range.end
                  /\ e.range.end - e.range.start = fde.len

\* C30: on a sorted table of disjoint ranges, when the range [start, end)
\* of an entry contains ip and a row of that entry contains ip, walk_one
\* selects that entry and does not fail NoUnwindInfoForAddress, also when
\* ip is the end address of the entry before it.
\* Violated in a build with the library checks: the lookup aborts on the
\* first entry it probes whose bias is above ip.
C30_LookupAndRowsAgree ==
    (/\ phase = "walker"
     /\ LastIsWalkOne
     /\ LastCall.regs.ip.valid
     /\ DisjointSorted(entries))
    =>
    \A i \in 1 .. Len(entries) :
        (/\ InRange(entries[i], LastCall.regs.ip.word)
         /\ \E k \in 1 .. Len(entries[i].fde.rows) :
               InRowRange(entries[i].fde.rows[k], entries[i].bias,
                          LastCall.regs.ip.word))
        => /\ LastCall.idx = i
           /\ ~(/\ LastCall.out.kind = "Err"
                /\ LastCall.out.err = "NoUnwindInfoForAddress")

\* C21: a read of the default in-process reader at an address that cannot
\* be dereferenced, address 0 for one, returns an error: it does not
\* panic and does not fault.
C21_ProcessReadFailsWithError ==
    (rowop = "this_process_memory_read" /\ ~row_reader[rowargs.addr].ok)
    => rowout.read.kind = "Err"

\* C28: a Result converts to Valid(w) when Ok(w) and to Invalid when Err;
\* a TaggedWord converts to Ok(w) when Valid(w) and to
\* Err(InvalidTaggedWord) when Invalid; a TaggedWord converted to a Result
\* and back is the same TaggedWord; the default TaggedWord is Invalid.
C28_ConversionsRoundTrip ==
    /\ opname = "from_result" =>
          /\ conv.res.kind = "Ok" =>
                (conv.outw.valid /\ conv.outw.word = conv.res.word)
          /\ conv.res.kind = "Err" => ~conv.outw.valid
    /\ opname = "into_result" =>
          /\ lhs.valid =>
                (conv.outr.kind = "Ok" /\ conv.outr.word = lhs.word)
          /\ ~lhs.valid =>
                (conv.outr.kind = "Err" /\ conv.outr.err = "InvalidTaggedWord")
    /\ opname = "round_trip" => conv.outw = lhs
    /\ opname = "default" => ~conv.outw.valid

\* An Invalid word was converted to a Result and back, and is Invalid.
C28_Witness ==
    /\ opname = "round_trip"
    /\ ~lhs.valid
    /\ conv.outr.kind = "Err"
    /\ ~conv.outw.valid

\* C29: on an Invalid word map and and_then return Invalid without a call
\* of their function; on Valid(w), with the one call f(w), map returns
\* Valid(f(w)) and and_then returns f(w) as it is; unwrap_or returns w for
\* Valid(w) and the default for Invalid.
C29_MapAndThenUnwrapOr ==
    /\ opname \in {"map", "and_then"} =>
          IF lhs.valid THEN conv.fcalls = <<lhs.word>>
          ELSE (conv.fcalls = <<>> /\ ~conv.outw.valid)
    /\ (opname = "map" /\ lhs.valid) =>
          (conv.outw.valid /\ conv.outw.word = conv.f[lhs.word])
    /\ (opname = "and_then" /\ lhs.valid) => conv.outw = conv.f[lhs.word]
    /\ opname = "unwrap_or" =>
          conv.outn = (IF lhs.valid THEN lhs.word ELSE conv.d)

\* and_then on a valid word gave the Invalid its function returned.
C29_Witness ==
    /\ opname = "and_then"
    /\ lhs.valid
    /\ conv.fcalls = <<lhs.word>>
    /\ ~conv.f[lhs.word].valid
    /\ ~conv.outw.valid

\* Is the divisor of a division or remainder the valid word zero?
ZeroDivisor(o, b) == o \in {"div", "rem"} /\ b.valid /\ b.word = 0

\* C31: for each operator of +, -, *, /, %, &, |, ^ and all a and b, the
\* divisor not zero, the a that `a op= b` leaves is the value of `a op b`,
\* without panic: Invalid when a is Invalid, and Invalid when a is valid
\* and b is Invalid.
C31_AssignAgreesWithOperator ==
    \A o \in BinOps :
        (opname = AssignName(o) /\ ~ZeroDivisor(o, rhs)) =>
            /\ opout = Binop(o, lhs, rhs)
            /\ ~opout.panic
            /\ (~lhs.valid \/ ~rhs.valid) => opout.value = Invalid

\* `a -= b` on a = Valid(0), b = Valid(1) left Valid(MAX) in a, the value
\* of a - b.
C31_Witness ==
    /\ opname = "sub_assign"
    /\ lhs = Valid(0)
    /\ rhs = Valid(1)
    /\ opout = Done(Valid(Modulus - 1))
    /\ opout = Binop("sub", lhs, rhs)

\* C32: every walk_one a Walker has made, after whatever walk_one calls
\* it had returned from before, Ok or Err, gave what a Walker fresh from
\* build gives on the same table, memory and registers, and at each
\* return the context stored back is a reset one, as build made it.
\* Violated: after a failed initialize the context the decoder handed
\* back is stored without a reset.
C32_WalkOneHistoryIndependent ==
    /\ \A i \in 1 .. Len(calls) :
          calls[i].out \in
              {walk_one(entries, reader, NewCtx, calls[i].regs,
                        overflow_checks, u).out :
                  u \in BOOLEAN}
    /\ (pc = "idle" /\ calls # <<>>) => ctx = NewCtx

=====
